---- MODULE Spec2Model ----
(***************************************************************************)
(* Model of bibt.gcp.bq.classes.Client: the BigQuery wrapper's load-job    *)
(* and query operations, with the Python function-default dictionaries     *)
(* (config_params={}, query_config={}) kept as state, because Python       *)
(* evaluates a default argument once and the methods mutate it in place.   *)
(*                                                                         *)
(* Python dictionaries are functions from a finite set of string keys to   *)
(* string values (booleans stored in a dictionary are written "True" /     *)
(* "False").  Exceptions are records [type, message].  The vendor SDK is   *)
(* the environment: each of its calls either succeeds or raises, chosen    *)
(* nondeterministically.                                                   *)
(***************************************************************************)
EXTENDS Integers, Sequences, FiniteSets, TLC

VARIABLES
    upload_defaults,   \* the dict object bound to upload_gcs_json's config_params default
    query_defaults,    \* the dict object bound to query's query_config default
    last               \* observation of the most recent call on the Client

vars == <<upload_defaults, query_defaults, last>>

\* ---------------------------------------------------------------- bounds
MaxRows == 2

\* ------------------------------------------------------- python helpers
EmptyDict == [k \in {} |-> ""]

DictSet(d, k, v) == [x \in (DOMAIN d) \cup {k} |-> IF x = k THEN v ELSE d[x]]

BoolVal(b) == IF b THEN "True" ELSE "False"

None == "<None>"

Truthy(s) == s \notin {None, ""}

Contains(seq, e) == \E i \in DOMAIN seq : seq[i] = e

Count(seq, e) == Cardinality({i \in DOMAIN seq : seq[i] = e})

IndexOf(seq, e) == CHOOSE i \in DOMAIN seq : seq[i] = e

\* ----------------------------------------------------------- exceptions
NoError == [type |-> "None", message |-> ""]

\* an exception raised by the SDK; its message is the SDK's own
Exc(kind) == [type |-> kind, message |-> "sdk"]

BadRequestMessage == "Import failed with BadRequest exception. See error data in logs."

\* google.api_core.exceptions: InvalidArgument is a subclass of BadRequest,
\* NotFound is not.
BadRequestClass == {"BadRequest", "InvalidArgument"}

JobErrors == {"BadRequest", "InvalidArgument", "NotFound"}

JobOutcomes == {"ok"} \cup JobErrors

\* where a call may fail before the job exists, and with what
FailPoints == {"none", "get_table", "build", "submit"}

FailError(point) ==
    CASE point = "get_table" -> Exc("NotFound")
      [] point = "build" -> Exc("AttributeError")
      [] point = "submit" -> Exc("Forbidden")
      [] OTHER -> NoError

\* ------------------------------------------------------- _monitor_job
\* variant: _monitor_job without the except clause
MonitorJobNoCatch(job) ==
    IF job = "ok"
    THEN [events |-> <<"job.result">>, raised |-> NoError]
    ELSE [events |-> <<"job.result">>, raised |-> Exc(job)]

MonitorJob(job) ==
    IF job = "ok"
    THEN [events |-> <<"job.result">>, raised |-> NoError]
    ELSE IF job \in BadRequestClass
    THEN [events |-> <<"job.result", "log.error:job.errors">>,
          raised |-> [type |-> "SystemError", message |-> BadRequestMessage]]
    ELSE [events |-> <<"job.result">>, raised |-> Exc(job)]

\* --------------------------------------------------- _submit_load_job
\* fail = "submit": load_table_from_uri raises; job: how the job ends.
\* Result: the events of the call, what it raises, and the job's state
\* ("none": never created, "running": left unmonitored).
\* variant: _submit_load_job monitoring whatever await_result is
SubmitLoadJobAlwaysMonitor(await_result, fail, job) ==
    IF fail = "submit"
    THEN [events |-> <<"load_table_from_uri">>, raised |-> FailError(fail), job |-> "none"]
    ELSE LET m == MonitorJob(job)
         IN  [events |-> <<"load_table_from_uri">> \o m.events
                         \o (IF m.raised = NoError
                             THEN <<"log.info:Upload complete.">> ELSE <<>>),
              raised |-> m.raised, job |-> job]

\* variant: _submit_load_job submitting again after a failure
SubmitLoadJobRetry(await_result, fail, job) ==
    IF fail = "submit"
    THEN [events |-> <<"load_table_from_uri", "load_table_from_uri">>,
          raised |-> FailError(fail), job |-> "none"]
    ELSE IF await_result
    THEN LET m == MonitorJob(job)
         IN  [events |-> <<"load_table_from_uri">> \o m.events
                         \o (IF m.raised = NoError
                             THEN <<"log.info:Upload complete.">>
                             ELSE <<"load_table_from_uri">>),
              raised |-> m.raised, job |-> job]
    ELSE [events |-> <<"load_table_from_uri">>, raised |-> NoError, job |-> "running"]

SubmitLoadJob(await_result, fail, job) ==
    IF fail = "submit"
    THEN [events |-> <<"load_table_from_uri">>, raised |-> FailError(fail), job |-> "none"]
    ELSE IF await_result
    THEN LET m == MonitorJob(job)
         IN  [events |-> <<"load_table_from_uri">> \o m.events
                         \o (IF m.raised = NoError
                             THEN <<"log.info:Upload complete.">> ELSE <<>>),
              raised |-> m.raised, job |-> job]
    ELSE [events |-> <<"load_table_from_uri">>, raised |-> NoError, job |-> "running"]

\* ----------------------------------------------------- upload_gcs_json
SchemaPaths == {None, "schema.json"}

SchemaFromJson(path) == "schema_of:" \o path

\* lines 107-122: the schema block.  schema_ok: whether schema_from_json
\* parses the file.  Returns the dict and the events.
BuildSchema(d, autodetect_schema, schema_json_path, schema_ok) ==
    IF Truthy(schema_json_path)
    THEN [dict |-> IF schema_ok
                   THEN DictSet(d, "schema", SchemaFromJson(schema_json_path))
                   ELSE d,
          events |-> (IF autodetect_schema THEN <<"log.warn:autodetect with schema">> ELSE <<>>)
                     \o <<"schema_from_json">>
                     \o (IF schema_ok THEN <<"log.info:Schema built.">>
                                      ELSE <<"log.warn:Failed to build schema">>)]
    ELSE [dict |-> d, events |-> <<>>]

\* lines 123-131: the explicit arguments are written into the dict
\* variant: lines 123-131 written with setdefault, a caller value winning
AssembleConfigSetDefault(d, append, ignore_unknown, autodetect_schema) ==
    LET SetDefault(x, k, v) == IF k \in DOMAIN x THEN x ELSE DictSet(x, k, v)
        d1 == SetDefault(d, "write_disposition",
                         IF append THEN "WRITE_APPEND" ELSE "WRITE_TRUNCATE")
        d2 == SetDefault(d1, "source_format", "NEWLINE_DELIMITED_JSON")
        d3 == SetDefault(d2, "ignore_unknown_values", BoolVal(ignore_unknown))
    IN  SetDefault(d3, "autodetect", BoolVal(autodetect_schema))

AssembleConfig(d, append, ignore_unknown, autodetect_schema) ==
    LET d1 == DictSet(d, "write_disposition",
                      IF append THEN "WRITE_APPEND" ELSE "WRITE_TRUNCATE")
        d2 == DictSet(d1, "source_format", "NEWLINE_DELIMITED_JSON")
        d3 == DictSet(d2, "ignore_unknown_values", BoolVal(ignore_unknown))
    IN  DictSet(d3, "autodetect", BoolVal(autodetect_schema))

\* what a caller may pass as config_params: nothing (the default object is
\* used), or a fresh dict holding values under the keys the function writes
CallerConfig ==
    [write_disposition |-> "WRITE_EMPTY", source_format |-> "CSV",
     ignore_unknown_values |-> "caller_value", autodetect |-> "caller_value",
     schema |-> "caller_schema"]

ConfigParamChoices ==
    { [given |-> FALSE, dict |-> EmptyDict],
      [given |-> TRUE, dict |-> CallerConfig] }

\* The result set of a finished query job: the column names, in schema
\* order, and the rows as value tuples in result order.
ColumnNames == <<"a", "b">>

RowValues == {<<0, 1>>, <<1, 0>>}

ResultSets ==
    UNION { [schema : {ColumnNames}, rows : [1..n -> RowValues]] : n \in 0..MaxRows }

NoResults == [schema |-> ColumnNames, rows |-> <<>>]

NoCall ==
    [op |-> "none", args |-> <<>>, schema |-> "none", fail |-> "none",
     has_config |-> FALSE, config |-> EmptyDict, events |-> <<>>,
     raised |-> NoError, returned |-> "none", rows |-> <<>>, job |-> "none",
     results |-> NoResults]

\* lines 105-143, the whole call
UploadGcsJson(args, schema_ok, fail, job) ==
    LET d0 == IF args.config_params.given THEN args.config_params.dict ELSE upload_defaults
        s  == BuildSchema(d0, args.autodetect_schema, args.schema_json_path, schema_ok)
        d  == AssembleConfig(s.dict, args.append, args.ignore_unknown, args.autodetect_schema)
        pre == s.events \o <<"get_table">>
        sub == SubmitLoadJob(args.await_result, fail, job)
        base == [NoCall EXCEPT !.op = "upload_gcs_json", !.args = args, !.fail = fail,
                               !.schema = IF ~Truthy(args.schema_json_path) THEN "none"
                                          ELSE IF schema_ok THEN "parsed" ELSE "failed"]
    IN  /\ upload_defaults' = IF args.config_params.given THEN upload_defaults ELSE d
        /\ UNCHANGED query_defaults
        /\ last' =
             IF fail = "get_table"
             THEN [base EXCEPT !.events = pre, !.raised = FailError(fail),
                               !.returned = "raised"]
             ELSE IF fail = "build"
             THEN [base EXCEPT !.events = pre \o <<"build_load_job_config">>,
                               !.has_config = TRUE, !.config = d,
                               !.raised = FailError(fail), !.returned = "raised"]
             ELSE [base EXCEPT !.events = pre \o <<"build_load_job_config">> \o sub.events,
                               !.has_config = TRUE, !.config = d,
                               !.raised = sub.raised,
                               !.returned = IF sub.raised = NoError THEN "None" ELSE "raised",
                               !.job = sub.job]

UploadArgs ==
    [append : BOOLEAN, ignore_unknown : BOOLEAN, autodetect_schema : BOOLEAN,
     schema_json_path : SchemaPaths, await_result : BOOLEAN,
     config_params : ConfigParamChoices]

Upload ==
    \E args \in UploadArgs :
      \E schema_ok \in (IF Truthy(args.schema_json_path) THEN BOOLEAN ELSE {TRUE}) :
        \E fail \in FailPoints :
          \E job \in (IF fail = "none" /\ args.await_result THEN JobOutcomes ELSE {"ok"}) :
            UploadGcsJson(args, schema_ok, fail, job)

\* a job that was submitted and not awaited ends on its own, in the service
JobFinish ==
    /\ last.job = "running"
    /\ \E outcome \in JobOutcomes : last' = [last EXCEPT !.job = outcome]
    /\ UNCHANGED <<upload_defaults, query_defaults>>

Init ==
    /\ upload_defaults = EmptyDict
    /\ query_defaults = EmptyDict
    /\ last = NoCall

NextUpload == Upload \/ JobFinish

SpecUpload == Init /\ [][NextUpload]_vars

\* ------------------------------------------------------------- query
\* the SDK's Row object: the values and the name -> position index
SdkRow(schema, values) ==
    [values |-> values,
     field_to_index |-> [name \in {schema[i] : i \in DOMAIN schema} |->
                            IndexOf(schema, name)]]

\* line 187: dict(row.items())
RowToDict(row) ==
    [k \in DOMAIN row.field_to_index |-> row.values[row.field_to_index[k]]]

\* lines 185-187: the loop that fills results_json
\* variant: the loop stopping one row early
ResultsJsonDropLast(results) ==
    [i \in 1..(Len(results.rows) - 1) |-> RowToDict(SdkRow(results.schema, results.rows[i]))]

ResultsJson(results) ==
    [i \in 1..Len(results.rows) |-> RowToDict(SdkRow(results.schema, results.rows[i]))]

\* lines 171-172: the BATCH default
\* variant: BATCH written over a caller-supplied priority
QueryConfigAlwaysBatch(d, await_result) ==
    IF ~await_result THEN DictSet(d, "priority", "BATCH") ELSE d

QueryConfig(d, await_result) ==
    IF ~await_result /\ "priority" \notin DOMAIN d
    THEN DictSet(d, "priority", "BATCH")
    ELSE d

\* variant: query awaiting its job through _monitor_job
QueryAwaitMonitored(await_result, job, results) ==
    IF ~await_result
    THEN [events |-> <<"log.info:Not waiting">>, raised |-> NoError,
          returned |-> "None", rows |-> <<>>, job |-> "running"]
    ELSE LET m == MonitorJob(job)
         IN  IF m.raised = NoError
             THEN [events |-> m.events, raised |-> NoError, returned |-> "list",
                   rows |-> ResultsJson(results), job |-> job]
             ELSE [events |-> m.events, raised |-> m.raised, returned |-> "raised",
                   rows |-> <<>>, job |-> job]

\* lines 180-189: what query does with the submitted job
QueryAwait(await_result, job, results) ==
    IF ~await_result
    THEN [events |-> <<"log.info:Not waiting">>, raised |-> NoError,
          returned |-> "None", rows |-> <<>>, job |-> "running"]
    ELSE IF job = "ok"
    THEN [events |-> <<"job.result", "log.info:Iterating over result rows">>,
          raised |-> NoError, returned |-> "list",
          rows |-> ResultsJson(results), job |-> job]
    ELSE [events |-> <<"job.result">>, raised |-> Exc(job), returned |-> "raised",
          rows |-> <<>>, job |-> job]

\* lines 179-189: submission, then QueryAwait
SubmitQuery(await_result, fail, job, results) ==
    IF fail = "submit"
    THEN [events |-> <<"client.query">>, raised |-> FailError(fail),
          returned |-> "raised", rows |-> <<>>, job |-> "none"]
    ELSE LET q == QueryAwait(await_result, job, results)
         IN  [q EXCEPT !.events = <<"client.query">> \o q.events]

\* what a caller may pass as query_config: nothing (the default object is
\* used), a fresh empty dict, or a fresh dict with or without a priority
QueryConfigChoices ==
    { [given |-> FALSE, dict |-> EmptyDict],
      [given |-> TRUE, dict |-> EmptyDict],
      [given |-> TRUE, dict |-> [priority |-> "INTERACTIVE"]],
      [given |-> TRUE, dict |-> [use_legacy_sql |-> "False"]] }

QueryArgs == [query_config : QueryConfigChoices, await_result : BOOLEAN]

\* lines 171-189, the whole call.  results: the rows the job yields when
\* it succeeds.
QueryCall(args, fail, job, results) ==
    LET d0 == IF args.query_config.given THEN args.query_config.dict ELSE query_defaults
        d  == QueryConfig(d0, args.await_result)
        has_config == DOMAIN d # {}
        sub == SubmitQuery(args.await_result, fail, job, results)
        base == [NoCall EXCEPT !.op = "query", !.args = args, !.fail = fail,
                               !.has_config = has_config, !.config = d,
                               !.results = results]
    IN  /\ fail = "build" => has_config
        /\ query_defaults' = IF args.query_config.given THEN query_defaults ELSE d
        /\ UNCHANGED upload_defaults
        /\ last' =
             IF fail = "build"
             THEN [base EXCEPT !.events = <<"QueryJobConfig">>,
                               !.raised = FailError(fail), !.returned = "raised"]
             ELSE [base EXCEPT !.events = (IF has_config THEN <<"QueryJobConfig">> ELSE <<>>)
                                          \o sub.events,
                               !.raised = sub.raised, !.returned = sub.returned,
                               !.rows = sub.rows, !.job = sub.job]

Query ==
    \E args \in QueryArgs :
      \E fail \in {"none", "build", "submit"} :
        \E job \in (IF fail = "none" /\ args.await_result THEN JobOutcomes ELSE {"ok"}) :
          \E results \in (IF fail = "none" /\ args.await_result /\ job = "ok"
                          THEN ResultSets ELSE {NoResults}) :
            QueryCall(args, fail, job, results)

NextQuery == Query \/ JobFinish

SpecQuery == Init /\ [][NextQuery]_vars

Next == Upload \/ Query \/ JobFinish

Spec == Init /\ [][Next]_vars

\* ---------------------------------------------------------------- claims
IsUpload == last.op = "upload_gcs_json"

IsQuery == last.op = "query"

FunctionKeys == {"write_disposition", "source_format", "ignore_unknown_values", "autodetect"}

SystemErrorRaised == [type |-> "SystemError", message |-> BadRequestMessage]

\* C1: whatever config_params the caller supplies, the config mapping handed
\* to the load-job-config builder has write_disposition = WRITE_APPEND /
\* WRITE_TRUNCATE by the append flag, source_format = NEWLINE_DELIMITED_JSON,
\* ignore_unknown_values = ignore_unknown and autodetect = autodetect_schema.
C1_ExplicitArgumentsOverride ==
    (IsUpload /\ last.has_config) =>
        /\ FunctionKeys \subseteq DOMAIN last.config
        /\ last.config["write_disposition"] =
              (IF last.args.append THEN "WRITE_APPEND" ELSE "WRITE_TRUNCATE")
        /\ last.config["source_format"] = "NEWLINE_DELIMITED_JSON"
        /\ last.config["ignore_unknown_values"] = BoolVal(last.args.ignore_unknown)
        /\ last.config["autodetect"] = BoolVal(last.args.autodetect_schema)

C1_Witness ==
    /\ IsUpload /\ last.has_config
    /\ last.args.config_params.given
    /\ last.args.config_params.dict["write_disposition"] = "WRITE_EMPTY"
    /\ ~last.args.append
    /\ last.config["write_disposition"] = "WRITE_TRUNCATE"
    /\ Contains(last.events, "load_table_from_uri")

\* the caller put no schema into the mapping it passed (or passed none)
CallerGaveNoSchema ==
    last.args.config_params.given => "schema" \notin DOMAIN last.args.config_params.dict

\* C2: when schema_json_path is given and the schema file cannot be parsed,
\* the call does not fail on that account: it submits the load job, and the
\* config mapping used has no schema key, whatever calls preceded it.
C2_UnparsableSchemaLeavesNoSchemaKey ==
    (IsUpload /\ last.schema = "failed" /\ last.fail = "none" /\ CallerGaveNoSchema) =>
        /\ Contains(last.events, "load_table_from_uri")
        /\ "schema" \notin DOMAIN last.config

\* C3: the config mapping of a call that omits config_params is determined
\* by that call's own arguments alone: it holds the four keys the function
\* writes, and schema exactly when this call parsed a schema file.
C3_ConfigFromOwnArgumentsOnly ==
    (IsUpload /\ last.has_config /\ ~last.args.config_params.given) =>
        DOMAIN last.config =
            FunctionKeys \cup (IF last.schema = "parsed" THEN {"schema"} ELSE {})

\* C4: an awaited load job failing with a BadRequest-class error makes the
\* call log job.errors and raise SystemError with the fixed message; any
\* other job error reaches the caller as it was raised; a job that succeeds
\* raises nothing.
C4_MonitorJobTranslatesBadRequest ==
    (IsUpload /\ Contains(last.events, "job.result")) =>
        /\ last.job \in BadRequestClass =>
              /\ last.raised = SystemErrorRaised
              /\ Contains(last.events, "log.error:job.errors")
        /\ last.job \in JobErrors \ BadRequestClass =>
              /\ last.raised = Exc(last.job)
              /\ ~Contains(last.events, "log.error:job.errors")
        /\ last.job = "ok" => last.raised = NoError

C4_Witness ==
    /\ IsUpload /\ last.args.await_result
    /\ last.job = "InvalidArgument"
    /\ last.raised = SystemErrorRaised
    /\ Contains(last.events, "log.error:job.errors")

\* C5 as stated: an awaited query job failing with a BadRequest-class error
\* makes query raise SystemError with the fixed message and log job.errors.
C5_QueryBadRequestTranslated ==
    (IsQuery /\ last.args.await_result /\ Contains(last.events, "job.result")
       /\ last.job \in BadRequestClass) =>
        /\ last.raised = SystemErrorRaised
        /\ Contains(last.events, "log.error:job.errors")

\* C5 amended: an awaited query job failing with a BadRequest-class error
\* reaches the caller of query as the error the SDK raised; no SystemError
\* is raised and job.errors is not logged.
C5_QueryBadRequestPropagates ==
    (IsQuery /\ last.args.await_result /\ Contains(last.events, "job.result")
       /\ last.job \in BadRequestClass) =>
        /\ last.raised = Exc(last.job)
        /\ last.returned = "raised"
        /\ ~Contains(last.events, "log.error:job.errors")

C5_Witness ==
    /\ IsQuery /\ last.args.await_result
    /\ last.job = "BadRequest"
    /\ last.raised = Exc("BadRequest")

\* C6: a query submitted with await_result = false uses a config holding
\* priority = "BATCH" when the mapping had no priority key, and the
\* caller's own priority when query_config came with one.
C6_BatchPriorityDefault ==
    (IsQuery /\ ~last.args.await_result /\ Contains(last.events, "client.query")) =>
        /\ last.has_config
        /\ "priority" \in DOMAIN last.config
        /\ last.config["priority"] =
              (IF /\ last.args.query_config.given
                  /\ "priority" \in DOMAIN last.args.query_config.dict
               THEN last.args.query_config.dict["priority"]
               ELSE "BATCH")

C6_Witness ==
    /\ IsQuery /\ ~last.args.await_result
    /\ last.args.query_config.given
    /\ "priority" \in DOMAIN last.args.query_config.dict
    /\ last.config["priority"] = "INTERACTIVE"
    /\ Contains(last.events, "client.query")

\* C7: a query call with await_result = true and no query_config argument
\* submits with no job config, so never with BATCH priority.
C7_AwaitedDefaultQueryHasNoConfig ==
    (IsQuery /\ last.args.await_result /\ ~last.args.query_config.given) =>
        /\ ~last.has_config
        /\ "priority" \notin DOMAIN last.config

ColumnSet(results) == {results.schema[j] : j \in DOMAIN results.schema}

C9_SubmitThenMonitor ==
    IsUpload =>
        LET ev == last.events
            submitted == Contains(ev, "load_table_from_uri")
            monitored == Count(ev, "job.result")
        IN  /\ monitored <= 1
            /\ monitored = 1 =>
                  /\ submitted
                  /\ last.args.await_result
                  /\ IndexOf(ev, "load_table_from_uri") < IndexOf(ev, "job.result")
            /\ (last.args.await_result /\ last.fail = "none") => monitored = 1
            /\ Contains(ev, "log.info:Upload complete.") =>
                  /\ monitored = 1
                  /\ last.raised = NoError
                  /\ IndexOf(ev, "job.result") < IndexOf(ev, "log.info:Upload complete.")
            /\ (last.args.await_result /\ last.fail = "none" /\ last.raised = NoError) =>
                  Contains(ev, "log.info:Upload complete.")
            /\ (~last.args.await_result /\ last.fail = "none") =>
                  /\ ev[Len(ev)] = "load_table_from_uri"
                  /\ last.returned = "None"
                  /\ last.raised = NoError

C9_Witness ==
    /\ IsUpload /\ ~last.args.await_result
    /\ last.job \in BadRequestClass
    /\ last.raised = NoError
    /\ last.returned = "None"

\* C10: no call submits more than one job, also when the submission or the
\* awaited job fails; and when get_table or the job-config builder fails in
\* upload_gcs_json, no load job is submitted and that error is raised.
C10_NoRetry ==
    /\ IsUpload =>
          /\ Count(last.events, "load_table_from_uri") <= 1
          /\ last.fail \in {"get_table", "build"} =>
                /\ ~Contains(last.events, "load_table_from_uri")
                /\ last.raised = FailError(last.fail)
                /\ last.returned = "raised"
                /\ last.job = "none"
    /\ IsQuery => Count(last.events, "client.query") <= 1

C10_Witness ==
    /\ IsUpload /\ last.args.await_result
    /\ last.job \in JobErrors
    /\ last.raised # NoError
    /\ Count(last.events, "load_table_from_uri") = 1
====
